---------------------------- MODULE Spec2Model ----------------------------
(***************************************************************************)
(* A model of the credit-card reconciliation core of the household finance *)
(* tracker: the transaction store of App.tsx, the card settings, and the   *)
(* derived values of the Reconciliation screen (billing cycle, candidate   *)
(* list, detail lists, discrepancy, reconciled total).                     *)
(*                                                                         *)
(* Dates are the ISO strings "YYYY-MM-DD" of the program read as the       *)
(* number YYYYMMDD: the program compares dates as strings, and for         *)
(* zero-padded strings that order is the order of these numbers.  Billing  *)
(* months "YYYY-MM" are the numbers YYYYMM.                                *)
(***************************************************************************)
EXTENDS Integers, Sequences, FiniteSets, TLC

VARIABLES
    zone,                    \* the runtime's time zone (fixed for a run)
    now,                     \* the runtime's clock, in ticks
    transactions,            \* App state: Transaction[]
    cardSettings,            \* App state: Record<string, CardSetting>
    selectedBank,            \* Reconciliation state
    selectedStatementMonth,  \* Reconciliation state
    statementTotal,          \* Reconciliation state: the text of the total input
    isRemoteUpdate,          \* App ref: the next effect run follows a remote load
    syncStatus,              \* App state: 'idle', 'syncing', 'saved' or 'error'
    timers,                  \* the armed debounce timers, each with the data it captured
    saving,                  \* the saveToGoogleSheet requests in flight
    loading,                 \* the number of loadFromGoogleSheet requests in flight
    budgets,                 \* App state: the stored MonthlyBudget records
    selectedMonth,           \* BudgetManager state: the month shown
    hist,                    \* history: the last operations and what they acted on
    snapshot                 \* history: the totals captured by handleToggleIssued

vars == <<zone, now, transactions, cardSettings, selectedBank,
          selectedStatementMonth, statementTotal, isRemoteUpdate, syncStatus,
          timers, saving, loading, budgets, selectedMonth, hist, snapshot>>

budgetVars == <<budgets, selectedMonth>>

syncVars == <<isRemoteUpdate, syncStatus, timers, saving, loading>>

-----------------------------------------------------------------------------
(* Bounds of the model *)

MaxTx == 2      \* transactions held at once
MaxClock == 2   \* clock ticks in a run
MaxHeld == 13   \* transactions held at once where series are created
MaxAdds == 1    \* submissions and imports that add transactions in a run

-----------------------------------------------------------------------------
(* Values.  An optional number (a field that may be undefined, the result  *)
(* of parseFloat or parseInt) is None or Some(n); getCycleRange's null is  *)
(* Null.                                                                   *)

None == << >>
Some(v) == <<v>>
Val(m) == m[1]
Null == << >>

NONE == "-"                 \* CardBank.NONE
CASH == "cash"              \* PaymentMethod.CASH
CREDIT_CARD == "card"       \* PaymentMethod.CREDIT_CARD

Banks == {"X", "Y"}         \* configured cards other than "-"

-----------------------------------------------------------------------------
(* The calendar of the JavaScript Date object *)

MkDate(y, m, d) == y * 10000 + m * 100 + d
YearOf(x) == x \div 10000
MonthOf(x) == (x \div 100) % 100
DayOf(x) == x % 100

IsLeap(y) == (y % 4 = 0 /\ y % 100 # 0) \/ y % 400 = 0

DaysInMonth(y, m) ==
    IF m = 2 THEN (IF IsLeap(y) THEN 29 ELSE 28)
    ELSE IF m \in {4, 6, 9, 11} THEN 30 ELSE 31

\* Day d of month m of year y, with d outside the month rolled over into the
\* following (or preceding) months, as the Date constructor does.
RECURSIVE RollDay(_, _, _)
RollDay(y, m, d) ==
    IF d > DaysInMonth(y, m)
    THEN IF m = 12 THEN RollDay(y + 1, 1, d - DaysInMonth(y, m))
                   ELSE RollDay(y, m + 1, d - DaysInMonth(y, m))
    ELSE IF d < 1
    THEN IF m = 1 THEN RollDay(y - 1, 12, d + DaysInMonth(y - 1, 12))
                  ELSE RollDay(y, m - 1, d + DaysInMonth(y, m - 1))
    ELSE MkDate(y, m, d)

\* new Date(year, monthIndex, day): the local calendar date it denotes.
\* monthIndex is zero-based and may lie outside 0..11.
NewDate(year, monthIndex, day) ==
    RollDay(year + (monthIndex \div 12), (monthIndex % 12) + 1, day)

NextDay(x) == RollDay(YearOf(x), MonthOf(x), DayOf(x) + 1)
PrevDay(x) == RollDay(YearOf(x), MonthOf(x), DayOf(x) - 1)

\* Days elapsed up to a date, for the day of the week.
CumDays(m) ==
    CASE m = 1 -> 0 [] m = 2 -> 31 [] m = 3 -> 59 [] m = 4 -> 90
      [] m = 5 -> 120 [] m = 6 -> 151 [] m = 7 -> 181 [] m = 8 -> 212
      [] m = 9 -> 243 [] m = 10 -> 273 [] m = 11 -> 304 [] m = 12 -> 334

DayNumber(x) ==
    LET y == YearOf(x)
        m == MonthOf(x)
        yl == IF m <= 2 THEN y - 1 ELSE y
    IN  365 * y + (yl \div 4) - (yl \div 100) + (yl \div 400) + CumDays(m) + DayOf(x)

\* 2024-03-31 was a Sunday.
IsSunday(x) == (DayNumber(x) - DayNumber(MkDate(2024, 3, 31))) % 7 = 0

LastSunday(y, m) == CHOOSE x \in {MkDate(y, m, d) : d \in 25..31} : IsSunday(x)

(* Time zones the program may run in.  "UTC-5" and "UTC+8" keep one offset *)
(* all year (the program's home zone, Asia/Taipei, is UTC+8); London is on *)
(* UTC+0 in winter and UTC+1 from the last Sunday of March, 01:00 UTC, to  *)
(* the last Sunday of October, 01:00 UTC.                                  *)
Zones == {"UTC-5", "UTC+8", "Europe/London"}

\* The zone's offset from UTC, in hours, at local midnight of date x.
UtcOffsetHours(z, x) ==
    CASE z = "UTC-5" -> -5
      [] z = "UTC+8" -> 8
      [] z = "Europe/London" ->
            IF /\ x > LastSunday(YearOf(x), 3)
               /\ x <= LastSunday(YearOf(x), 10)
            THEN 1 ELSE 0

\* date.toISOString().split('T')[0] for a Date at local midnight of x: the
\* UTC calendar date of that instant.  Local midnight is (0 - offset) hours
\* UTC, which falls on the previous day when the offset is positive.
ToISODate(z, x) ==
    IF 0 - UtcOffsetHours(z, x) < 0 THEN PrevDay(x) ELSE x

-----------------------------------------------------------------------------
(* Billing months *)

MonthKey(y, m) == y * 100 + m
NextMonth(ym) == IF ym % 100 = 12 THEN MonthKey((ym \div 100) + 1, 1) ELSE ym + 1

\* How many months billing month ym lies after the month of date x.
MonthsAfter(ym, x) ==
    ((ym \div 100) * 12 + (ym % 100)) - (YearOf(x) * 12 + MonthOf(x))

-----------------------------------------------------------------------------
(* Card settings (types.ts, CardSetting).  cardSettings is a map whose     *)
(* domain is the set of banks that have a setting.  The optional fields    *)
(* isNextMonth, issuedMonths and statementAmounts hold FALSE, << >> and    *)
(* the empty map when absent, which is how every read of them in the       *)
(* program treats undefined (?. || false, || [], || {},                    *)
(* !existing.isNextMonth).  statementAmounts is a map whose domain is its  *)
(* set of keys.                                                            *)

EmptyMap == << >>

MkSetting(day, nextMonth, issued, amounts) ==
    [statementDay |-> day, isNextMonth |-> nextMonth,
     issuedMonths |-> issued, statementAmounts |-> amounts]

\* cardSettings[bank]?.statementAmounts?.[month]
SavedAmount(settings, bank, month) ==
    IF bank \notin DOMAIN settings THEN None
    ELSE IF month \in DOMAIN settings[bank].statementAmounts
         THEN Some(settings[bank].statementAmounts[month]) ELSE None

\* array.includes(x)
Includes(s, x) == \E i \in 1..Len(s) : s[i] = x

\* array.filter(m => m !== x)
RECURSIVE Without(_, _)
Without(s, x) ==
    IF s = << >> THEN << >>
    ELSE IF Head(s) = x THEN Without(Tail(s), x)
         ELSE <<Head(s)>> \o Without(Tail(s), x)

\* { ...map, [key]: value }
MapPut(map, key, value) ==
    [k \in (DOMAIN map) \cup {key} |-> IF k = key THEN value ELSE map[k]]

\* { ...a, ...b } of two objects
Spread(a, b) ==
    [f \in (DOMAIN a) \cup (DOMAIN b) |-> IF f \in DOMAIN b THEN b[f] ELSE a[f]]

-----------------------------------------------------------------------------
(* Transactions (types.ts, Transaction).  The fields category, description *)
(* and the series flags play no part in reconciliation and are left out.   *)
(* A transaction without a reconciledDate carries None there.              *)

TxIds == {transactions[i].id : i \in 1..Len(transactions)}

TxOf(id) == transactions[CHOOSE i \in 1..Len(transactions) : transactions[i].id = id]

\* Math.random().toString(36).substr(2, 9): an id no transaction held has.
FreshId == CHOOSE n \in 1..(Len(transactions) + 1) : n \notin TxIds

\* array.reduce((s, t) => s + t.amount, 0)
RECURSIVE SumAmounts(_)
SumAmounts(s) == IF s = << >> THEN 0 ELSE Head(s).amount + SumAmounts(Tail(s))

\* array.sort(cmp), a stable sort: t goes before the first element that the
\* order puts strictly after it.
RECURSIVE InsertSorted(_, _, _)
InsertSorted(t, s, descending) ==
    IF s = << >> THEN <<t>>
    ELSE IF (IF descending THEN t.date > Head(s).date ELSE t.date < Head(s).date)
         THEN <<t>> \o s
         ELSE <<Head(s)>> \o InsertSorted(t, Tail(s), descending)

RECURSIVE SortFrom(_, _, _)
SortFrom(s, acc, descending) ==
    IF s = << >> THEN acc
    ELSE SortFrom(Tail(s), InsertSorted(Head(s), acc, descending), descending)

\* (a, b) => b.date.localeCompare(a.date)
SortByDateDesc(s) == SortFrom(s, << >>, TRUE)
\* (a, b) => a.date.localeCompare(b.date)
SortByDateAsc(s) == SortFrom(s, << >>, FALSE)

IdsOf(s) == {s[i].id : i \in 1..Len(s)}

-----------------------------------------------------------------------------
(* The Reconciliation screen's derived values *)

\* getCycleRange's arithmetic for a zone, a statement day and a billing month.
CycleOf(z, statementDay, yearMonth) ==
    LET year == yearMonth \div 100
        month == yearMonth % 100
        endDate == NewDate(year, month - 1, statementDay)
        startDate == NewDate(year, month - 2, statementDay + 1)
    IN  [start |-> ToISODate(z, startDate), end |-> ToISODate(z, endDate)]

\* A getCycleRange that tests only whether the bank has a setting.
getCycleRangeAnyDay(bank, yearMonth) ==
    IF bank \notin DOMAIN cardSettings THEN Null
    ELSE CycleOf(zone, cardSettings[bank].statementDay, yearMonth)

getCycleRange(bank, yearMonth) ==
    IF bank \notin DOMAIN cardSettings THEN Null
    ELSE IF cardSettings[bank].statementDay = 0 THEN Null
    ELSE CycleOf(zone, cardSettings[bank].statementDay, yearMonth)

(* The Dashboard's own getCycleRange (its cardStatus): a statement day     *)
(* below 15 moves the cycle to the month after the selected one.           *)
DashboardCycleOf(z, statementDay, yearMonth) ==
    LET year == yearMonth \div 100
        month == yearMonth % 100
        shifted == statementDay < 15
        targetMonth == IF shifted THEN (IF month + 1 > 12 THEN 1 ELSE month + 1)
                       ELSE month
        targetYear == IF shifted /\ month + 1 > 12 THEN year + 1 ELSE year
        endDate == NewDate(targetYear, targetMonth - 1, statementDay)
        startDate == NewDate(targetYear, targetMonth - 2, statementDay + 1)
    IN  [start |-> ToISODate(z, startDate), end |-> ToISODate(z, endDate)]

DashboardGetCycleRange(bank, yearMonth) ==
    IF bank \notin DOMAIN cardSettings THEN Null
    ELSE IF cardSettings[bank].statementDay = 0 THEN Null
    ELSE DashboardCycleOf(zone, cardSettings[bank].statementDay, yearMonth)

\* The Dashboard's unbilled transactions of a bank for a selected month.
DashboardUnbilled(bank, yearMonth) ==
    LET range == DashboardGetCycleRange(bank, yearMonth)
        keep(t) == /\ t.cardBank = bank
                   /\ ~t.isReconciled
                   /\ (range # Null => t.date <= range.end)
    IN  SelectSeq(transactions, keep)

isMonthIssued(bank, month) ==
    IF bank \notin DOMAIN cardSettings THEN FALSE
    ELSE Includes(cardSettings[bank].issuedMonths, month)

\* The candidates restricted to the cycle [start, end].
IsCandidateInCycle(t, bank, range) ==
    IF t.cardBank # bank \/ t.isReconciled THEN FALSE
    ELSE IF range = Null THEN TRUE
    ELSE t.date >= range.start /\ t.date <= range.end

IsCandidate(t, bank, range) ==
    IF t.cardBank # bank \/ t.isReconciled THEN FALSE
    ELSE IF range = Null THEN TRUE
    ELSE t.date <= range.end

CandidatesOf(bank, month) ==
    IF bank = NONE THEN << >>
    ELSE LET range == getCycleRange(bank, month)
             keep(t) == IsCandidate(t, bank, range)
         IN  SortByDateDesc(SelectSeq(transactions, keep))

candidateTransactions == CandidatesOf(selectedBank, selectedStatementMonth)

unreconciledSumInCycle == SumAmounts(candidateTransactions)

\* The text of the number input is a sequence of decimal digits; '' is << >>.
EmptyText == << >>

RECURSIVE DigitsValue(_)
DigitsValue(text) ==
    IF text = << >> THEN 0
    ELSE DigitsValue(SubSeq(text, 1, Len(text) - 1)) * 10 + text[Len(text)]

\* parseFloat(text): None is NaN.
ParseFloat(text) == IF text = EmptyText THEN None ELSE Some(DigitsValue(text))

\* amount.toString() of a non-negative whole amount.
RECURSIVE NumberToString(_)
NumberToString(n) == IF n < 10 THEN <<n>> ELSE NumberToString(n \div 10) \o <<n % 10>>

\* parseFloat(statementTotal) || 0
targetTotal ==
    IF ParseFloat(statementTotal) = None THEN 0 ELSE Val(ParseFloat(statementTotal))

\* A reconciled total that has no lower bound on the date, like the candidates.
InCycleUpToEnd(t, bank, range) ==
    /\ t.cardBank = bank
    /\ t.isReconciled
    /\ t.date <= range.end

InStrictCycle(t, bank, range) ==
    /\ t.cardBank = bank
    /\ t.isReconciled
    /\ t.date >= range.start
    /\ t.date <= range.end

\* The reconciled total without the saved statement amount.
ReconciledTotalLive(bank, month) ==
    IF bank = NONE THEN 0
    ELSE LET range == getCycleRange(bank, month)
             keep(t) == InStrictCycle(t, bank, range)
         IN  IF range = Null THEN 0
             ELSE SumAmounts(SelectSeq(transactions, keep))

ReconciledTotalOf(bank, month) ==
    IF bank = NONE THEN 0
    ELSE IF SavedAmount(cardSettings, bank, month) # None
         THEN Val(SavedAmount(cardSettings, bank, month))
    ELSE LET range == getCycleRange(bank, month)
             keep(t) == InStrictCycle(t, bank, range)
         IN  IF range = Null THEN 0
             ELSE SumAmounts(SelectSeq(transactions, keep))

reconciledTotalInCycle == ReconciledTotalOf(selectedBank, selectedStatementMonth)

\* The discrepancy of an earlier revision of the screen: against the
\* reconciled total.
discrepancyAgainstReconciled == targetTotal - reconciledTotalInCycle

discrepancy == targetTotal - unreconciledSumInCycle

Abs(x) == IF x < 0 THEN 0 - x ELSE x

\* A highlight that also accepts a difference of exactly one.
isBalancedUpToOne == Abs(discrepancy) <= 1 /\ targetTotal > 0

\* The condition under which the discrepancy box is highlighted.
isBalanced == Abs(discrepancy) < 1 /\ targetTotal > 0

\* A 'billed' figure that sums only the reconciled transactions dated in
\* the selected month's cycle.
CardBilledInCycle(bank) ==
    LET range == getCycleRange(bank, selectedStatementMonth)
        keep(t) == /\ t.cardBank = bank /\ t.isReconciled
                   /\ (range # Null => t.date >= range.start /\ t.date <= range.end)
    IN  SumAmounts(SelectSeq(transactions, keep))

CardBilled(bank) ==
    LET txs == SelectSeq(transactions, LAMBDA t : t.cardBank = bank)
    IN  SumAmounts(SelectSeq(txs, LAMBDA t : t.isReconciled))

CardUnbilled(bank) ==
    LET txs == SelectSeq(transactions, LAMBDA t : t.cardBank = bank)
    IN  SumAmounts(SelectSeq(txs, LAMBDA t : ~t.isReconciled))

\* The summary cards: one record per bank that holds a transaction.
cardSummary ==
    LET count(bank) == Len(SelectSeq(transactions, LAMBDA t : t.cardBank = bank))
        shown == {bank \in Banks : count(bank) > 0}
    IN  [bank \in shown |->
           [bank |-> bank, unbilled |-> CardUnbilled(bank), billed |-> CardBilled(bank),
            issued |-> isMonthIssued(bank, selectedStatementMonth),
            totalCount |-> count(bank)]]

\* The 'reconciled' list without the restriction to the cycle.
InDetailReconciledAnyDate(t, bank, type, range) ==
    IF t.cardBank # bank THEN FALSE
    ELSE IF type = "reconciled" THEN t.isReconciled
    ELSE IF t.isReconciled THEN FALSE
    ELSE IF range = Null THEN type = "current"
    ELSE IF type = "current" THEN t.date <= range.end
    ELSE IF type = "future" THEN t.date > range.end
    ELSE FALSE

\* The 'future' list starting on the cycle's last day.
InDetailFutureFromEnd(t, bank, type, range) ==
    IF t.cardBank # bank THEN FALSE
    ELSE IF type = "reconciled"
         THEN IF range = Null THEN t.isReconciled
              ELSE t.isReconciled /\ t.date >= range.start /\ t.date <= range.end
    ELSE IF t.isReconciled THEN FALSE
    ELSE IF range = Null THEN type = "current"
    ELSE IF type = "current" THEN t.date <= range.end
    ELSE IF type = "future" THEN t.date >= range.end
    ELSE FALSE

InDetail(t, bank, type, range) ==
    IF t.cardBank # bank THEN FALSE
    ELSE IF type = "reconciled"
         THEN IF range = Null THEN t.isReconciled
              ELSE t.isReconciled /\ t.date >= range.start /\ t.date <= range.end
    ELSE IF t.isReconciled THEN FALSE
    ELSE IF range = Null THEN type = "current"
    ELSE IF type = "current" THEN t.date <= range.end
    ELSE IF type = "future" THEN t.date > range.end
    ELSE FALSE

getDetailTransactions(bank, type) ==
    LET range == getCycleRange(bank, selectedStatementMonth)
        keep(t) == InDetail(t, bank, type, range)
        kept == SelectSeq(transactions, keep)
    IN  IF type = "future" THEN SortByDateAsc(kept) ELSE SortByDateDesc(kept)

getTotal(bank, type) == SumAmounts(getDetailTransactions(bank, type))

-----------------------------------------------------------------------------
(* Operations of App.tsx on the transaction store.  The history variables  *)
(* hist and snapshot are set by the specifications below, not here.        *)

appFrame == <<budgetVars, zone, now, cardSettings, selectedBank, selectedStatementMonth,
              statementTotal>>

(* Cloud sync.  The auto-save effect of App.tsx runs after every render    *)
(* that changed the persisted state (its other dependencies, categories,   *)
(* budget, cardBanks, incomeSources and budgets, are not modelled);        *)
(* googleScriptUrl is the non-empty GOOGLE_SCRIPT_URL and isFirstMount is  *)
(* false once the App is mounted.  React applies the state updates of one  *)
(* handler in one render, so the effect is part of the handler's step.     *)

\* The BackupData the effect's closure holds.
Payload ==
    [transactions |-> transactions, cardSettings |-> cardSettings,
     budgets |-> budgets]

\* No MonthlyBudget is stored and the BudgetManager shows the current month.
NoBudgets == budgets = << >> /\ selectedMonth = MonthKey(2024, 3)

\* The state in which no request is in flight and no timer is armed, as
\* after a completed save.
SyncSettled ==
    /\ isRemoteUpdate = FALSE
    /\ syncStatus = "saved"
    /\ timers = << >>
    /\ saving = << >>
    /\ loading = 0

\* An effect that does not look at isRemoteUpdate.
AutoSaveAlways(remote, status) ==
    /\ isRemoteUpdate' = remote
    /\ timers' = <<Payload'>>
    /\ syncStatus' = "syncing"

\* The effect run that follows a render: remote is isRemoteUpdate.current
\* and status the syncStatus the handler has set.  The cleanup of the
\* previous run clears its timer.
AutoSave(remote, status) ==
    IF remote
    THEN /\ isRemoteUpdate' = FALSE
         /\ timers' = << >>
         /\ syncStatus' = status
    ELSE /\ isRemoteUpdate' = remote
         /\ timers' = <<Payload'>>
         /\ syncStatus' = "syncing"

autoSaveEffect ==
    /\ AutoSave(isRemoteUpdate, syncStatus)
    /\ UNCHANGED <<saving, loading>>

addTransaction(newTx) ==
    /\ Len(transactions) < MaxTx
    /\ transactions' =
         <<Spread(Spread([reconciledDate |-> None], newTx), [id |-> FreshId])>>
         \o transactions
    /\ UNCHANGED appFrame
    /\ autoSaveEffect

editTransaction(id, updatedTx) ==
    /\ transactions' =
         [i \in 1..Len(transactions) |->
            IF transactions[i].id = id
            THEN Spread(transactions[i], updatedTx) ELSE transactions[i]]
    /\ UNCHANGED appFrame
    /\ autoSaveEffect

deleteTransaction(id) ==
    /\ transactions' = SelectSeq(transactions, LAMBDA t : t.id # id)
    /\ UNCHANGED appFrame
    /\ autoSaveEffect

\* The optional recurringGroupId of a transaction: None when it is undefined.
RecurringGroupIdOf(t) ==
    IF "recurringGroupId" \in DOMAIN t THEN Some(t.recurringGroupId) ELSE None

deleteRecurringGroup(groupId, fromDate) ==
    /\ transactions' =
         SelectSeq(transactions,
                   LAMBDA t : ~(RecurringGroupIdOf(t) = Some(groupId)
                                /\ t.date >= fromDate))
    /\ UNCHANGED appFrame
    /\ autoSaveEffect

\* A toggle that leaves the date in place when un-reconciling.
ToggledTxKeepingDate(t) ==
    LET newStatus == ~t.isReconciled
    IN  [t EXCEPT !.isReconciled = newStatus,
                  !.reconciledDate = IF newStatus THEN Some(now) ELSE t.reconciledDate]

ToggledTx(t) ==
    LET newStatus == ~t.isReconciled
    IN  [t EXCEPT !.isReconciled = newStatus,
                  !.reconciledDate = IF newStatus THEN Some(now) ELSE None]

toggleReconcile(id) ==
    /\ transactions' =
         [i \in 1..Len(transactions) |->
            IF transactions[i].id # id THEN transactions[i]
            ELSE ToggledTx(transactions[i])]
    /\ UNCHANGED appFrame
    /\ autoSaveEffect

\* Time passing between two operations.
Tick ==
    /\ now < MaxClock
    /\ now' = now + 1
    /\ UNCHANGED <<budgetVars, zone, transactions, cardSettings, selectedBank,
                   selectedStatementMonth, statementTotal>>
    /\ UNCHANGED syncVars

\* addTransactions gives every new transaction an id of its own.
RECURSIVE FreshIds(_, _)
FreshIds(k, used) ==
    IF k = 0 THEN << >>
    ELSE LET n == CHOOSE n \in 1..(Cardinality(used) + 1) : n \notin used
         IN  <<n>> \o FreshIds(k - 1, used \cup {n})

addTransactions(newTxs) ==
    /\ Len(transactions) + Len(newTxs) <= MaxHeld
    /\ LET ids == FreshIds(Len(newTxs), TxIds)
           transactionsToAdd ==
               [i \in 1..Len(newTxs) |->
                  Spread(Spread([reconciledDate |-> None], newTxs[i]), [id |-> ids[i]])]
       IN  transactions' = transactionsToAdd \o transactions
    /\ UNCHANGED appFrame
    /\ autoSaveEffect

(* new Date(date) reads the form's "YYYY-MM-DD" as midnight UTC; setMonth  *)
(* and getMonth work on the local date and time of that instant, and       *)
(* toISOString gives back the UTC date.  LocalOf is the local date and     *)
(* hour of midnight UTC of x (the zone's offset on that day is its offset  *)
(* at that instant: London changes at 01:00 UTC).                          *)
LocalOf(z, x) ==
    LET offset == UtcOffsetHours(z, x)
    IN  IF offset >= 0 THEN [date |-> x, hour |-> offset]
        ELSE [date |-> PrevDay(x), hour |-> 24 + offset]

\* The UTC date of a local date and hour.
UtcDateOf(z, local) ==
    LET hour == local.hour - UtcOffsetHours(z, local.date)
    IN  IF hour < 0 THEN PrevDay(local.date)
        ELSE IF hour >= 24 THEN NextDay(local.date)
        ELSE local.date

\* const d = new Date(date); d.setMonth(d.getMonth() + i);
\* d.toISOString().split('T')[0]
SeriesDate(z, date, i) ==
    LET local == LocalOf(z, date)
        moved == NewDate(YearOf(local.date), (MonthOf(local.date) - 1) + i,
                         DayOf(local.date))
    IN  UtcDateOf(z, [date |-> moved, hour |-> local.hour])

\* The split that gives every period the same share.
InstallmentAmountEven(totalAmount, count, i) == totalAmount \div count

\* currentAmount of period i (from 0): perPeriod, plus the remainder in the
\* first period.  Amounts are whole and not negative.
InstallmentAmount(totalAmount, count, i) ==
    LET perPeriod == totalAmount \div count
        remainder == totalAmount % count
    IN  IF i = 0 THEN perPeriod + remainder ELSE perPeriod

(* The transaction form of TransactionList.tsx.  form holds the form's     *)
(* state: editingId (None when adding), date, amount (the number           *)
(* parseFloat reads), paymentMethod, cardBank, the boxes isRecurring and   *)
(* isInstallment, and installments (what parseInt reads, None for NaN).    *)
BaseTx(form) ==
    [paymentMethod |-> form.paymentMethod,
     cardBank |-> IF form.paymentMethod = CREDIT_CARD THEN form.cardBank ELSE NONE,
     isReconciled |-> FALSE]

useRecurring(form) == form.isRecurring /\ ~form.isInstallment

useInstallment(form) ==
    form.isInstallment /\ ~form.isRecurring /\ form.paymentMethod = CREDIT_CARD

\* parseInt(installments) || 1
InstallmentCount(form) ==
    IF form.installments = None \/ Val(form.installments) = 0 THEN 1
    ELSE Val(form.installments)

handleSubmit(form) ==
    LET tx == Spread(BaseTx(form), [date |-> form.date, amount |-> form.amount])
        count == InstallmentCount(form)
    IN  IF form.editingId # None
        THEN editTransaction(Val(form.editingId), tx)
        ELSE IF useRecurring(form)
        THEN addTransactions(
                 [k \in 1..12 |->
                    Spread(BaseTx(form),
                           [date |-> SeriesDate(zone, form.date, k - 1),
                            amount |-> form.amount])])
        ELSE IF useInstallment(form) /\ count > 1
        THEN addTransactions(
                 [k \in 1..count |->
                    Spread(BaseTx(form),
                           [date |-> SeriesDate(zone, form.date, k - 1),
                            amount |-> InstallmentAmount(form.amount, count, k - 1)])])
        ELSE addTransaction(tx)

(* The spreadsheet import of TransactionList.tsx.  rows are the rows of    *)
(* the sheet: date and bank are None when the cell is empty, amount is     *)
(* what parseFloat reads (None for NaN), paymentMethod is the cell's text  *)
(* and reconciled says whether the status cell reads as reconciled.        *)
Today == MkDate(2024, 3, 10)

ImportedTx(row) ==
    [date |-> IF row.date = None THEN Today ELSE Val(row.date),
     amount |-> IF row.amount = None THEN 0 ELSE Val(row.amount),
     paymentMethod |->
        IF row.paymentMethod \in {CASH, CREDIT_CARD} THEN row.paymentMethod ELSE CASH,
     cardBank |-> IF row.bank = None THEN NONE ELSE Val(row.bank),
     isReconciled |-> row.reconciled]

handleImport(rows) ==
    addTransactions([k \in 1..Len(rows) |-> ImportedTx(rows[k])])

-----------------------------------------------------------------------------
(* Operations of the Reconciliation screen and of the Settings screen *)

\* The effect of Reconciliation.tsx that reloads the total input when the
\* selected bank, the selected month or cardSettings changes.
LoadedStatementTotal(settings, bank, month) ==
    IF bank = NONE THEN EmptyText
    ELSE IF SavedAmount(settings, bank, month) # None
         THEN NumberToString(Val(SavedAmount(settings, bank, month)))
    ELSE EmptyText

setSelectedBank(bank) ==
    /\ bank # selectedBank
    /\ selectedBank' = bank
    /\ statementTotal' = LoadedStatementTotal(cardSettings, bank, selectedStatementMonth)
    /\ UNCHANGED <<budgetVars, zone, now, transactions, cardSettings, selectedStatementMonth>>
    /\ UNCHANGED syncVars

setSelectedStatementMonth(month) ==
    /\ month # selectedStatementMonth
    /\ selectedStatementMonth' = month
    /\ statementTotal' = LoadedStatementTotal(cardSettings, selectedBank, month)
    /\ UNCHANGED <<budgetVars, zone, now, transactions, cardSettings, selectedBank>>
    /\ UNCHANGED syncVars

setStatementTotal(text) ==
    /\ statementTotal' = text
    /\ UNCHANGED <<budgetVars, zone, now, transactions, cardSettings, selectedBank,
                   selectedStatementMonth>>
    /\ UNCHANGED syncVars

\* cardSettings[bank] || fallback
SettingOr(bank, fallback) ==
    IF bank \in DOMAIN cardSettings THEN cardSettings[bank] ELSE fallback

\* Unchecking that also forgets the month's statement amount.
ToggledIssuedClearing(current, month, total) ==
    LET issued == current.issuedMonths
        amount == ParseFloat(total)
        amounts == current.statementAmounts
    IN  IF Includes(issued, month)
        THEN [current EXCEPT
                !.issuedMonths = Without(issued, month),
                !.statementAmounts = [k \in (DOMAIN amounts) \ {month} |-> amounts[k]]]
        ELSE [current EXCEPT
                !.issuedMonths = Append(issued, month),
                !.statementAmounts =
                    IF amount # None
                    THEN MapPut(current.statementAmounts, month, Val(amount))
                    ELSE current.statementAmounts]

\* The setting handleToggleIssued stores for the selected bank.
ToggledIssued(current, month, total) ==
    LET issued == current.issuedMonths
        amount == ParseFloat(total)
    IN  IF Includes(issued, month)
        THEN [current EXCEPT !.issuedMonths = Without(issued, month)]
        ELSE [current EXCEPT
                !.issuedMonths = Append(issued, month),
                !.statementAmounts =
                    IF amount # None
                    THEN MapPut(current.statementAmounts, month, Val(amount))
                    ELSE current.statementAmounts]

handleToggleIssued ==
    /\ selectedBank # NONE
    /\ LET current == SettingOr(selectedBank, MkSetting(15, FALSE, << >>, EmptyMap))
           new == MapPut(cardSettings, selectedBank,
                         ToggledIssued(current, selectedStatementMonth, statementTotal))
       IN  /\ cardSettings' = new
           /\ statementTotal' =
                LoadedStatementTotal(new, selectedBank, selectedStatementMonth)
    /\ UNCHANGED <<budgetVars, zone, now, transactions, selectedBank, selectedStatementMonth>>
    /\ autoSaveEffect

\* day is parseInt of the typed text: None is NaN.
handleUpdateStatementDay(bank, day) ==
    /\ day # None
    /\ LET existing == SettingOr(bank, MkSetting(0, FALSE, << >>, EmptyMap))
           new == MapPut(cardSettings, bank, [existing EXCEPT !.statementDay = Val(day)])
       IN  /\ cardSettings' = new
           /\ statementTotal' =
                LoadedStatementTotal(new, selectedBank, selectedStatementMonth)
    /\ UNCHANGED <<budgetVars, zone, now, transactions, selectedBank, selectedStatementMonth>>
    /\ autoSaveEffect

handleToggleNextMonth(bank) ==
    /\ LET existing == SettingOr(bank, MkSetting(0, FALSE, << >>, EmptyMap))
           new == MapPut(cardSettings, bank,
                         [existing EXCEPT !.isNextMonth = ~existing.isNextMonth])
       IN  /\ cardSettings' = new
           /\ statementTotal' =
                LoadedStatementTotal(new, selectedBank, selectedStatementMonth)
    /\ UNCHANGED <<budgetVars, zone, now, transactions, selectedBank, selectedStatementMonth>>
    /\ autoSaveEffect

NoHistory == UNCHANGED <<hist, snapshot>>

-----------------------------------------------------------------------------
(* SpecCycle: the billing cycle over every statement day and billing month *)

CycleMonths == {MonthKey(2023, 12)} \cup {MonthKey(2024, m) : m \in 1..12}
                  \cup {MonthKey(2025, 1)}
CycleDays == {Some(d) : d \in 1..31} \cup {None}

InitCycle ==
    /\ zone \in Zones
    /\ NoBudgets
    /\ now = 1
    /\ transactions = << >>
    /\ cardSettings = EmptyMap
    /\ selectedBank = NONE
    /\ selectedStatementMonth \in CycleMonths
    /\ statementTotal = EmptyText
    /\ SyncSettled
    /\ hist = << >>
    /\ snapshot = EmptyMap

NextCycle ==
    \/ \E m \in CycleMonths : setSelectedStatementMonth(m) /\ NoHistory
    \/ \E b \in {NONE, "X", "Y"} : setSelectedBank(b) /\ NoHistory
    \/ \E d \in CycleDays : handleUpdateStatementDay("X", d) /\ NoHistory
    \/ handleToggleNextMonth("X") /\ NoHistory

SpecCycle == InitCycle /\ [][NextCycle]_vars

\* The cycles of the selected month and of the month after it are contiguous
\* for bank b: the day after the first one's end is the second one's start.
Contiguous(b) ==
    LET this == getCycleRange(b, selectedStatementMonth)
        next == getCycleRange(b, NextMonth(selectedStatementMonth))
    IN  this # Null => NextDay(this.end) = next.start

(* C1: for every card setting with statementDay in 1..31 and every billing *)
(* month M, December to January included, the day after                    *)
(* getCycleRange(bank, M).end is getCycleRange(bank, M+1).start.           *)
C1_CycleContiguity == \A b \in Banks : Contiguous(b)

\* What the code does keep: contiguity in every zone whose offset from UTC is
\* the same all year.
CycleContiguityFixedOffset ==
    zone # "Europe/London" => \A b \in Banks : Contiguous(b)

(* C2: for statement day D and billing month (year, month), getCycleRange  *)
(* returns end = the calendar date (year, month, D) and start = the        *)
(* calendar date (year, month-1, D+1), whatever the zone's UTC offset;     *)
(* with D = 15 and billing month 2024-03, start 2024-02-16 and end         *)
(* 2024-03-15.                                                             *)
C2_CycleIsStatementDay ==
    \A b \in Banks :
        LET range == getCycleRange(b, selectedStatementMonth)
            year == selectedStatementMonth \div 100
            month == selectedStatementMonth % 100
            D == cardSettings[b].statementDay
        IN  range # Null =>
              /\ range.end = NewDate(year, month - 1, D)
              /\ range.start = NewDate(year, month - 2, D + 1)
              /\ (D = 15 /\ selectedStatementMonth = MonthKey(2024, 3)) =>
                    (range.start = MkDate(2024, 2, 16) /\ range.end = MkDate(2024, 3, 15))

-----------------------------------------------------------------------------
(* Spec: the Reconciliation screen over a changing transaction list.       *)
(* Transactions are added through the form, deleted and toggled; bank X    *)
(* gets statement day 15, bank Y keeps no setting.  The dates lie two      *)
(* months before the first billing month, on the statement day, and after  *)
(* it.                                                                     *)

SpecDates == {MkDate(2024, 1, 10), MkDate(2024, 3, 15), MkDate(2024, 3, 20)}
SpecAmounts == {100, 250}
SpecMonths == {MonthKey(2024, 3), MonthKey(2024, 4)}
SpecTotals == {EmptyText, <<3, 5, 0>>}
SpecZones == {"UTC-5", "UTC+8"}

AddForms ==
    [editingId : {None}, date : SpecDates, amount : SpecAmounts,
     paymentMethod : {CREDIT_CARD}, cardBank : Banks,
     isRecurring : {FALSE}, isInstallment : {FALSE}, installments : {Some(3)}]

Init ==
    /\ zone \in SpecZones
    /\ NoBudgets
    /\ now = 1
    /\ transactions = << >>
    /\ cardSettings = EmptyMap
    /\ selectedBank = NONE
    /\ selectedStatementMonth = MonthKey(2024, 3)
    /\ statementTotal = EmptyText
    /\ SyncSettled
    /\ hist = << >>
    /\ snapshot = EmptyMap

Next ==
    \/ \E form \in AddForms : handleSubmit(form) /\ NoHistory
    \/ \E id \in TxIds : deleteTransaction(id) /\ NoHistory
    \/ \E id \in TxIds : toggleReconcile(id) /\ NoHistory
    \/ \E b \in Banks \cup {NONE} : setSelectedBank(b) /\ NoHistory
    \/ \E m \in SpecMonths : setSelectedStatementMonth(m) /\ NoHistory
    \/ \E text \in SpecTotals : setStatementTotal(text) /\ NoHistory
    \/ handleUpdateStatementDay("X", Some(15)) /\ NoHistory

Spec == Init /\ [][Next]_vars

\* The transactions held, as a set.
Held == {transactions[i] : i \in 1..Len(transactions)}

InList(t, bank, type) == t.id \in IdsOf(getDetailTransactions(bank, type))

\* In how many of the three detail lists of bank the transaction appears.
ListCount(t, bank) ==
    Cardinality({type \in {"current", "future", "reconciled"} : InList(t, bank, type)})

RECURSIVE SumOfSet(_)
SumOfSet(S) ==
    IF S = {} THEN 0
    ELSE LET t == CHOOSE x \in S : TRUE IN t.amount + SumOfSet(S \ {t})

C3_Classified ==
    LET range == getCycleRange(selectedBank, selectedStatementMonth)
    IN  (selectedBank # NONE /\ range # Null) =>
          \A t \in Held :
             (t.cardBank = selectedBank /\ ~t.isReconciled) =>
                /\ t.id \in IdsOf(candidateTransactions) <=> t.date <= range.end
                /\ InList(t, selectedBank, "future") <=> t.date > range.end

C3_ToggleLeaves ==
    \A id \in TxIds :
       (id \in IdsOf(candidateTransactions) /\ toggleReconcile(id))
          => id \notin IdsOf(candidateTransactions)'

(* C3: for a selected bank with a cycle range, an unreconciled transaction *)
(* of the bank is a candidate exactly when its date <= cycle.end (no lower *)
(* bound) and is in the 'future' list exactly when its date > cycle.end;   *)
(* toggleReconcile on a candidate removes it from the candidates.          *)
C3_CandidatesUpToCycleEnd == []C3_Classified /\ [][C3_ToggleLeaves]_vars

\* A carried-forward candidate dated before the cycle starts, beside a
\* reconciled transaction of the bank that toggleReconcile took off the list.
C3_Witness ==
    LET range == getCycleRange(selectedBank, selectedStatementMonth)
    IN  /\ selectedBank # NONE
        /\ range # Null
        /\ \E t \in Held : /\ t.id \in IdsOf(candidateTransactions)
                           /\ t.date < range.start
        /\ \E t \in Held : /\ t.cardBank = selectedBank
                           /\ t.isReconciled /\ t.reconciledDate # None
                           /\ t.date <= range.end
                           /\ t.id \notin IdsOf(candidateTransactions)

\* The transactions of bank b dated two months or more before the selected
\* billing month.
CarriedForward(b) ==
    {t \in Held : t.cardBank = b /\ MonthsAfter(selectedStatementMonth, t.date) >= 2}

UnreconciledUpToEnd ==
    LET range == getCycleRange(selectedBank, selectedStatementMonth)
    IN  {t \in Held : /\ t.cardBank = selectedBank
                      /\ selectedBank # NONE
                      /\ ~t.isReconciled
                      /\ (range # Null => t.date <= range.end)}

-----------------------------------------------------------------------------
(* SpecIssued: issuing and un-issuing statements of bank X while its       *)
(* transactions change.  snapshot records, per bank and month, the total   *)
(* that was entered when the month was last checked as issued with a       *)
(* numeric total; hist records the last operation when it was              *)
(* handleToggleIssued, with the total entered at that moment.              *)

IssuedZones == {"UTC-5"}
IssuedMonths == {MonthKey(2024, 3), MonthKey(2024, 4)}
IssuedTotals == {EmptyText, <<0, 5>>, <<3, 0, 0>>}

IssuedAddForms ==
    [editingId : {None}, date : {MkDate(2024, 3, 10)}, amount : {100},
     paymentMethod : {CREDIT_CARD}, cardBank : {"X"},
     isRecurring : {FALSE}, isInstallment : {FALSE}, installments : {Some(3)}]

IssuedEditForms ==
    [editingId : {None}, date : {MkDate(2024, 3, 10)}, amount : {250},
     paymentMethod : {CREDIT_CARD}, cardBank : {"X"},
     isRecurring : {FALSE}, isInstallment : {FALSE}, installments : {Some(3)}]

NoOp == [op |-> "", total |-> EmptyText]

OtherOp == hist' = NoOp /\ UNCHANGED snapshot

IssuedToggle ==
    LET amount == ParseFloat(statementTotal)
        wasIssued == isMonthIssued(selectedBank, selectedStatementMonth)
    IN  /\ handleToggleIssued
        /\ hist' = [op |-> IF wasIssued THEN "uncheck" ELSE "check",
                    total |-> statementTotal]
        /\ snapshot' =
             IF ~wasIssued /\ amount # None
             THEN MapPut(snapshot, <<selectedBank, selectedStatementMonth>>, Val(amount))
             ELSE snapshot

InitIssued ==
    /\ zone \in IssuedZones
    /\ NoBudgets
    /\ now = 1
    /\ transactions = << >>
    /\ cardSettings = EmptyMap
    /\ selectedBank = NONE
    /\ selectedStatementMonth = MonthKey(2024, 3)
    /\ statementTotal = EmptyText
    /\ SyncSettled
    /\ hist = NoOp
    /\ snapshot = EmptyMap

NextIssued ==
    \/ IssuedToggle
    \/ \E text \in IssuedTotals : setStatementTotal(text) /\ OtherOp
    \/ \E b \in {NONE, "X"} : setSelectedBank(b) /\ OtherOp
    \/ \E m \in IssuedMonths : setSelectedStatementMonth(m) /\ OtherOp
    \/ handleUpdateStatementDay("X", Some(15)) /\ OtherOp
    \/ \E form \in IssuedAddForms : handleSubmit(form) /\ OtherOp
    \/ \E id \in TxIds : \E form \in IssuedEditForms :
          handleSubmit([form EXCEPT !.editingId = Some(id)]) /\ OtherOp
    \/ \E id \in TxIds : deleteTransaction(id) /\ OtherOp
    \/ \E id \in TxIds : toggleReconcile(id) /\ OtherOp

SpecIssued == InitIssued /\ [][NextIssued]_vars

(* C7: once handleToggleIssued has checked a month of a bank as issued     *)
(* while the entered total was the number X, statementAmounts[month] = X   *)
(* and reconciledTotalInCycle(bank, month) is X, whatever transactions are *)
(* added, edited, deleted or toggled afterwards.                           *)
C7_IssuedTotalIsKept ==
    \A key \in DOMAIN snapshot :
       /\ SavedAmount(cardSettings, key[1], key[2]) = Some(snapshot[key])
       /\ ReconciledTotalOf(key[1], key[2]) = snapshot[key]

\* A month was issued with total X, and the bank now holds a transaction
\* reconciled afterwards inside that month's cycle whose amount is not X.
C7_Witness ==
    \E key \in DOMAIN snapshot :
       LET range == getCycleRange(key[1], key[2])
       IN  /\ range # Null
           /\ \E t \in Held : /\ InStrictCycle(t, key[1], range)
                              /\ t.reconciledDate # None
                              /\ t.amount # snapshot[key]

C8_Uncheck ==
    (handleToggleIssued /\ isMonthIssued(selectedBank, selectedStatementMonth))
       => /\ ~Includes(cardSettings'[selectedBank].issuedMonths, selectedStatementMonth)
          /\ cardSettings'[selectedBank].statementAmounts
               = cardSettings[selectedBank].statementAmounts

(* C8: handleToggleIssued on a month that is already issued removes the    *)
(* month from issuedMonths and leaves statementAmounts unchanged, whatever *)
(* total is entered.                                                       *)
C8_UncheckKeepsAmounts == [][C8_Uncheck]_vars

\* The last operation unchecked the selected month while a total different
\* from the saved amount was entered; the saved amount is still there.
C8_Witness ==
    LET saved == SavedAmount(cardSettings, selectedBank, selectedStatementMonth)
    IN  /\ hist.op = "uncheck"
        /\ ~isMonthIssued(selectedBank, selectedStatementMonth)
        /\ saved # None
        /\ ParseFloat(hist.total) # None
        /\ ParseFloat(hist.total) # saved

-----------------------------------------------------------------------------
(* SpecToggle: reconciling and editing.  The list starts with one          *)
(* transaction, unreconciled, reconciled without a date (as in             *)
(* INITIAL_TRANSACTIONS) or reconciled at time 0; the clock starts at 1.   *)
(* hist records the last operation when it was toggleReconcile or an edit  *)
(* through the form: the transaction, its isReconciled and reconciledDate  *)
(* before the operation (before the first of two consecutive toggles of    *)
(* the same transaction), the number n of consecutive toggles, and the     *)
(* time of the call.                                                       *)

ToggleDate == MkDate(2024, 3, 10)

InitialTxs ==
    {[id |-> 1, date |-> ToggleDate, amount |-> 100, paymentMethod |-> CREDIT_CARD,
      cardBank |-> "X", isReconciled |-> r[1], reconciledDate |-> r[2]] :
        r \in {<<FALSE, None>>, <<TRUE, None>>, <<TRUE, Some(0)>>}}

ToggleAddForms ==
    [editingId : {None}, date : {ToggleDate}, amount : {100},
     paymentMethod : {CREDIT_CARD, CASH}, cardBank : {"X"},
     isRecurring : {FALSE}, isInstallment : {FALSE}, installments : {Some(3)}]

ToggleEditForms ==
    [editingId : {None}, date : {ToggleDate}, amount : {250},
     paymentMethod : {CREDIT_CARD}, cardBank : {"X"},
     isRecurring : {FALSE}, isInstallment : {FALSE}, installments : {Some(3)}]

NoCall ==
    [op |-> "", id |-> 0, n |-> 0, isReconciled |-> FALSE, reconciledDate |-> None,
     at |-> 0]

Forget == hist' = NoCall /\ UNCHANGED snapshot

ToggleCall(id) ==
    /\ toggleReconcile(id)
    /\ hist' = IF hist.op = "toggle" /\ hist.id = id /\ hist.n = 1
               THEN [hist EXCEPT !.n = 2, !.at = now]
               ELSE [op |-> "toggle", id |-> id, n |-> 1,
                     isReconciled |-> TxOf(id).isReconciled,
                     reconciledDate |-> TxOf(id).reconciledDate, at |-> now]
    /\ UNCHANGED snapshot

EditCall(id, form) ==
    /\ handleSubmit([form EXCEPT !.editingId = Some(id)])
    /\ hist' = [op |-> "edit", id |-> id, n |-> 0,
                isReconciled |-> TxOf(id).isReconciled,
                reconciledDate |-> TxOf(id).reconciledDate, at |-> now]
    /\ UNCHANGED snapshot

InitToggle ==
    /\ zone \in Zones
    /\ NoBudgets
    /\ now = 1
    /\ transactions \in {<<t>> : t \in InitialTxs}
    /\ cardSettings = EmptyMap
    /\ selectedBank = NONE
    /\ selectedStatementMonth = MonthKey(2024, 3)
    /\ statementTotal = EmptyText
    /\ SyncSettled
    /\ hist = NoCall
    /\ snapshot = EmptyMap

NextToggle ==
    \/ \E id \in TxIds : ToggleCall(id)
    \/ \E id \in TxIds : \E form \in ToggleEditForms : EditCall(id, form)
    \/ \E form \in ToggleAddForms : handleSubmit(form) /\ Forget
    \/ \E id \in TxIds : deleteTransaction(id) /\ Forget
    \/ Tick /\ UNCHANGED <<hist, snapshot>>

SpecToggle == InitToggle /\ [][NextToggle]_vars

C10_EditKeepsReconciliation ==
    hist.op = "edit" =>
       /\ TxOf(hist.id).isReconciled = hist.isReconciled
       /\ TxOf(hist.id).reconciledDate = hist.reconciledDate

-----------------------------------------------------------------------------
(* SpecSeries: the transaction form with its recurring and installment     *)
(* boxes, the spreadsheet import, and toggling and editing the newest      *)
(* transaction.  hist records the last operation: its kind, and for a      *)
(* submission the number of transactions it created, the form's amount and *)
(* date and the length of the list before; adds counts the operations that *)
(* added transactions.                                                     *)

SeriesDates == {MkDate(2024, 1, 15), MkDate(2024, 1, 31), MkDate(2024, 3, 1)}
SeriesAmounts == {0, 7, 1000}

SeriesForms ==
    [editingId : {None}, date : SeriesDates, amount : SeriesAmounts,
     paymentMethod : {CREDIT_CARD, CASH}, cardBank : {"X"},
     isRecurring : BOOLEAN, isInstallment : BOOLEAN,
     installments : {None, Some(2), Some(3)}]

SeriesEditForms ==
    [editingId : {None}, date : {MkDate(2024, 1, 15)}, amount : {250},
     paymentMethod : {CREDIT_CARD}, cardBank : {"X"},
     isRecurring : {FALSE}, isInstallment : {FALSE}, installments : {Some(3)}]

ImportRows ==
    [date : {None}, amount : {Some(50)}, paymentMethod : {CASH, CREDIT_CARD, ""},
     bank : {None, Some("X")}, reconciled : BOOLEAN]

NoSubmit ==
    [op |-> "", count |-> 0, total |-> 0, date |-> 0, before |-> 0, adds |-> 0]

SubmitKind(form) ==
    IF useRecurring(form) THEN "recurring"
    ELSE IF useInstallment(form) /\ InstallmentCount(form) > 1 THEN "installment"
    ELSE "single"

SeriesSubmit(form) ==
    /\ hist.adds < MaxAdds
    /\ handleSubmit(form)
    /\ hist' = [op |-> SubmitKind(form),
                count |-> CASE SubmitKind(form) = "recurring" -> 12
                            [] SubmitKind(form) = "installment" -> InstallmentCount(form)
                            [] OTHER -> 1,
                total |-> form.amount, date |-> form.date,
                before |-> Len(transactions), adds |-> hist.adds + 1]
    /\ UNCHANGED snapshot

SeriesImport(rows) ==
    /\ hist.adds < MaxAdds
    /\ handleImport(rows)
    /\ hist' = [NoSubmit EXCEPT !.op = "import", !.adds = hist.adds + 1]
    /\ UNCHANGED snapshot

SeriesToggle ==
    /\ transactions # << >>
    /\ toggleReconcile(transactions[1].id)
    /\ hist' = [NoSubmit EXCEPT !.op = "toggle", !.adds = hist.adds]
    /\ UNCHANGED snapshot

SeriesEdit(form) ==
    /\ transactions # << >>
    /\ handleSubmit([form EXCEPT !.editingId = Some(transactions[1].id)])
    /\ hist' = [NoSubmit EXCEPT !.op = "edit", !.adds = hist.adds]
    /\ UNCHANGED snapshot

GroupIds == {"g1"}

SeriesDeleteGroup(groupId, fromDate) ==
    /\ transactions # << >>
    /\ deleteRecurringGroup(groupId, fromDate)
    /\ hist' = [NoSubmit EXCEPT !.op = "deleteGroup", !.adds = hist.adds]
    /\ UNCHANGED snapshot

InitSeries ==
    /\ zone \in Zones
    /\ NoBudgets
    /\ now = 1
    /\ transactions = << >>
    /\ cardSettings = EmptyMap
    /\ selectedBank = NONE
    /\ selectedStatementMonth = MonthKey(2024, 3)
    /\ statementTotal = EmptyText
    /\ SyncSettled
    /\ hist = NoSubmit
    /\ snapshot = EmptyMap

NextSeries ==
    \/ \E form \in SeriesForms : SeriesSubmit(form)
    \/ \E row \in ImportRows : SeriesImport(<<row>>)
    \/ SeriesToggle
    \/ \E form \in SeriesEditForms : SeriesEdit(form)
    \/ \E g \in GroupIds, d \in SeriesDates : SeriesDeleteGroup(g, d)

SpecSeries == InitSeries /\ [][NextSeries]_vars

(* C11: every transaction with isReconciled = false has no reconciledDate. *)
C11_UnreconciledHasNoDate ==
    \A t \in Held : ~t.isReconciled => t.reconciledDate = None

(* C12: every transaction paid in cash has cardBank "-", and is in no      *)
(* bank's candidate list or detail lists.                                  *)
C12_CashHasNoBank ==
    \A t \in Held :
       t.paymentMethod = CASH =>
          /\ t.cardBank = NONE
          /\ \A b \in Banks :
                /\ t.id \notin IdsOf(CandidatesOf(b, selectedStatementMonth))
                /\ ListCount(t, b) = 0

\* The transactions the last submission created, oldest period first.
Created == SubSeq(transactions, 1, hist.count)

(* C19: an installment purchase of total T over n >= 2 periods creates     *)
(* exactly n transactions, the first of amount floor(T/n) + (T mod n) and  *)
(* every other of amount floor(T/n), and their amounts sum to T.           *)
C19_InstallmentAmounts ==
    hist.op = "installment" =>
       LET T == hist.total
           n == hist.count
       IN  /\ n >= 2
           /\ Len(transactions) = hist.before + n
           /\ \A k \in 1..n :
                 Created[k].amount = (IF k = 1 THEN (T \div n) + (T % n) ELSE T \div n)
           /\ SumOfSet({Created[k] : k \in 1..n}) = T

\* 1000 over 3 periods gave 334, 333, 333.
C19_Witness ==
    /\ hist.op = "installment"
    /\ hist.total = 1000
    /\ hist.count = 3
    /\ Len(transactions) = 3
    /\ <<transactions[1].amount, transactions[2].amount, transactions[3].amount>>
          = <<334, 333, 333>>

\* The calendar month of a date, counted in months.
MonthIndex(x) == YearOf(x) * 12 + MonthOf(x)

(* C20: a recurring or installment series from start date d holds one      *)
(* transaction in each of the consecutive calendar months beginning with   *)
(* d's month.                                                              *)
C20_SeriesMonthly ==
    hist.op \in {"recurring", "installment"} =>
       \A k \in 1..hist.count :
          MonthIndex(Created[k].date) = MonthIndex(hist.date) + (k - 1)

(* C21: the transactions created by one recurring submission share one     *)
(* recurringGroupId that no other transaction has, which is what lets      *)
(* deleteRecurringGroup remove exactly the siblings of the series.         *)
C21_SeriesSharesGroupId ==
    hist.op = "recurring" =>
       LET g == RecurringGroupIdOf(transactions[1])
       IN  /\ g # None
           /\ \A i \in 1..Len(transactions) :
                 (RecurringGroupIdOf(transactions[i]) = g) <=> (i <= hist.count)

-----------------------------------------------------------------------------
(* SpecCard: one card whose setting is created and changed from both       *)
(* screens (statement day, next-month flag, issued months), with           *)
(* transactions before and after the cycle's end.                          *)

CardDates == {MkDate(2024, 3, 10), MkDate(2024, 4, 20)}
CardMonths == {MonthKey(2024, 3), MonthKey(2024, 4)}
CardTotals == {<<3, 5, 0>>}
CardDays == {Some(0), Some(15)}

CardForms ==
    [editingId : {None}, date : CardDates, amount : {100},
     paymentMethod : {CREDIT_CARD}, cardBank : {"X"},
     isRecurring : {FALSE}, isInstallment : {FALSE}, installments : {Some(3)}]

InitCard ==
    /\ zone = "UTC+8"
    /\ NoBudgets
    /\ now = 1
    /\ transactions = << >>
    /\ cardSettings = EmptyMap
    /\ selectedBank = NONE
    /\ selectedStatementMonth = MonthKey(2024, 3)
    /\ statementTotal = EmptyText
    /\ SyncSettled
    /\ hist = << >>
    /\ snapshot = EmptyMap

NextCard ==
    \/ \E form \in CardForms : handleSubmit(form) /\ NoHistory
    \/ \E id \in TxIds : toggleReconcile(id) /\ NoHistory
    \/ \E b \in {NONE, "X"} : setSelectedBank(b) /\ NoHistory
    \/ \E m \in CardMonths : setSelectedStatementMonth(m) /\ NoHistory
    \/ \E text \in CardTotals : setStatementTotal(text) /\ NoHistory
    \/ handleToggleIssued /\ NoHistory
    \/ \E d \in CardDays : handleUpdateStatementDay("X", d) /\ NoHistory
    \/ handleToggleNextMonth("X") /\ NoHistory

SpecCard == InitCard /\ [][NextCard]_vars

\* A bank without a statement day: no setting, or a statement day of zero.
NoStatementDay(b) ==
    b \notin DOMAIN cardSettings \/ cardSettings[b].statementDay = 0

UnreconciledIds(b) == {t.id : t \in {u \in Held : u.cardBank = b /\ ~u.isReconciled}}

(* C22: for a bank without a setting, or whose statement day is zero,      *)
(* getCycleRange is null and, for every billing month, every unreconciled  *)
(* transaction of the bank is a candidate and in the current list, and the *)
(* future list is empty.                                                   *)
C22_NoSettingNoWindow ==
    \A b \in Banks :
       NoStatementDay(b) =>
          /\ \A m \in CardMonths :
                /\ getCycleRange(b, m) = Null
                /\ IdsOf(CandidatesOf(b, m)) = UnreconciledIds(b)
          /\ IdsOf(getDetailTransactions(b, "current")) = UnreconciledIds(b)
          /\ getDetailTransactions(b, "future") = << >>
          /\ (selectedBank = b => IdsOf(candidateTransactions) = UnreconciledIds(b))

\* The selected bank has a setting with statement day zero and holds an
\* unreconciled transaction dated after the selected month.
C22_Witness ==
    /\ selectedBank = "X"
    /\ "X" \in DOMAIN cardSettings
    /\ cardSettings["X"].statementDay = 0
    /\ selectedStatementMonth = MonthKey(2024, 3)
    /\ \E t \in Held : /\ t.cardBank = "X" /\ ~t.isReconciled
                       /\ t.date = MkDate(2024, 4, 20)

\* The billed and unbilled figures of the summary cards.
SummaryAmounts ==
    [b \in DOMAIN cardSummary |-> <<cardSummary[b].unbilled, cardSummary[b].billed>>]

C23_Sums ==
    \A b \in Banks :
       IF \E t \in Held : t.cardBank = b
       THEN /\ b \in DOMAIN cardSummary
            /\ cardSummary[b].unbilled
                 = SumOfSet({t \in Held : t.cardBank = b /\ ~t.isReconciled})
            /\ cardSummary[b].billed
                 = SumOfSet({t \in Held : t.cardBank = b /\ t.isReconciled})
       ELSE b \notin DOMAIN cardSummary

C23_Frame == transactions' = transactions => SummaryAmounts' = SummaryAmounts

-----------------------------------------------------------------------------
(* SpecBalance: a card with statement day 15, transactions of 5000 in the  *)
(* cycle of 2024-03 and the statement totals 0, 4999 and 5000.             *)

BalanceTotals == {<<0>>, <<4, 9, 9, 9>>, <<5, 0, 0, 0>>}

BalanceForm ==
    [editingId |-> None, date |-> MkDate(2024, 3, 10), amount |-> 5000,
     paymentMethod |-> CREDIT_CARD, cardBank |-> "X",
     isRecurring |-> FALSE, isInstallment |-> FALSE, installments |-> Some(3)]

NextBalance ==
    \/ handleSubmit(BalanceForm) /\ NoHistory
    \/ \E id \in TxIds : toggleReconcile(id) /\ NoHistory
    \/ \E id \in TxIds : deleteTransaction(id) /\ NoHistory
    \/ \E b \in {NONE, "X"} : setSelectedBank(b) /\ NoHistory
    \/ \E text \in BalanceTotals : setStatementTotal(text) /\ NoHistory
    \/ handleUpdateStatementDay("X", Some(15)) /\ NoHistory

SpecBalance == InitCard /\ [][NextBalance]_vars

BalancedRule ==
    /\ isBalanced <=> (Abs(discrepancy) < 1 /\ targetTotal > 0)
    /\ targetTotal = 0 => ~isBalanced

-----------------------------------------------------------------------------
(* The budget screen (BudgetManager): the record of the month shown, its   *)
(* totals and its edits.  A record holds its incomes as a sequence of      *)
(* [sourceId, amount] and its manually entered card bills.                 *)

\* The configured income sources (the ids of two of the default sources).
incomeSources == <<"1", "3">>

StoredBudgets(month) == SelectSeq(budgets, LAMBDA b : b.month = month)

DefaultLoan == 40000

currentBudget ==
    IF StoredBudgets(selectedMonth) # << >> THEN Head(StoredBudgets(selectedMonth))
    ELSE [month |-> selectedMonth,
          openingBalance |-> 0,
          incomes |-> [k \in 1..Len(incomeSources) |->
                         [sourceId |-> incomeSources[k], amount |-> 0]],
          loan |-> DefaultLoan,
          creditCards |-> << >>]

stats ==
    LET incomeTotal == SumAmounts(currentBudget.incomes)
        cardTotal == SumAmounts(currentBudget.creditCards)
        expenseTotal == currentBudget.loan + cardTotal
    IN  [incomeTotal |-> incomeTotal, cardTotal |-> cardTotal,
         expenseTotal |-> expenseTotal,
         balance |-> currentBudget.openingBalance + incomeTotal - expenseTotal]

setSelectedMonth(month) ==
    /\ selectedMonth' = month
    /\ UNCHANGED <<budgets, zone, now, transactions, cardSettings, selectedBank,
                   selectedStatementMonth, statementTotal>>
    /\ UNCHANGED syncVars

updateBudget(updates) ==
    /\ budgets' = Append(SelectSeq(budgets, LAMBDA b : b.month # selectedMonth),
                         Spread(currentBudget, updates))
    /\ UNCHANGED <<selectedMonth, zone, now, transactions, cardSettings, selectedBank,
                   selectedStatementMonth, statementTotal>>
    /\ autoSaveEffect

updateIncomeAmount(sourceId, amount) ==
    LET incomes == currentBudget.incomes
        set(i) == IF i.sourceId = sourceId THEN [i EXCEPT !.amount = amount] ELSE i
        newIncomes == [k \in 1..Len(incomes) |-> set(incomes[k])]
        found == \E k \in 1..Len(newIncomes) : newIncomes[k].sourceId = sourceId
    IN  updateBudget([incomes |->
                        IF found THEN newIncomes
                        ELSE Append(newIncomes, [sourceId |-> sourceId, amount |-> amount])])

-----------------------------------------------------------------------------
(* SpecBudget: the month shown is changed and its record edited.  hist is  *)
(* the last operation and snapshot the budgets before it.                  *)

BudgetMonths == {MonthKey(2024, 3), MonthKey(2024, 4)}
BudgetUpdates == {[loan |-> 0], [openingBalance |-> 100]}

BudgetView(month) ==
    /\ setSelectedMonth(month)
    /\ hist' = "view"
    /\ snapshot' = budgets

BudgetEdit(updates) ==
    /\ updateBudget(updates)
    /\ hist' = "edit"
    /\ snapshot' = budgets

BudgetIncome(sourceId, amount) ==
    /\ updateIncomeAmount(sourceId, amount)
    /\ hist' = "edit"
    /\ snapshot' = budgets

InitBudget ==
    /\ zone = "UTC+8"
    /\ NoBudgets
    /\ now = 1
    /\ transactions = << >>
    /\ cardSettings = EmptyMap
    /\ selectedBank = NONE
    /\ selectedStatementMonth = MonthKey(2024, 3)
    /\ statementTotal = EmptyText
    /\ SyncSettled
    /\ hist = ""
    /\ snapshot = << >>

NextBudget ==
    \/ \E month \in BudgetMonths : BudgetView(month)
    \/ \E updates \in BudgetUpdates : BudgetEdit(updates)
    \/ BudgetIncome("3", 300)

SpecBudget == InitBudget /\ [][NextBudget]_vars

(* C25: a month without a stored MonthlyBudget shows a default record of   *)
(* zeros (openingBalance 0, loan 0, amount 0 for every income source), so  *)
(* its expenseTotal and balance are 0; viewing a month adds nothing to     *)
(* budgets, only an edit does.                                             *)
C25_DefaultBudgetIsZero ==
    /\ StoredBudgets(selectedMonth) = << >> =>
          /\ currentBudget.openingBalance = 0
          /\ currentBudget.loan = 0
          /\ \A k \in 1..Len(incomeSources) :
                currentBudget.incomes[k] = [sourceId |-> incomeSources[k], amount |-> 0]
          /\ stats.expenseTotal = 0
          /\ stats.balance = 0
    /\ hist = "view" => budgets = snapshot

C29_Frame ==
    handleToggleIssued =>
       /\ \A b \in (DOMAIN cardSettings') \ {selectedBank} :
             b \in DOMAIN cardSettings /\ cardSettings'[b] = cardSettings[b]
       /\ IF selectedBank \in DOMAIN cardSettings
          THEN /\ cardSettings'[selectedBank].statementDay
                    = cardSettings[selectedBank].statementDay
               /\ cardSettings'[selectedBank].isNextMonth
                    = cardSettings[selectedBank].isNextMonth
          ELSE cardSettings'[selectedBank].statementDay = 0
       /\ getCycleRange(selectedBank, selectedStatementMonth)'
             = getCycleRange(selectedBank, selectedStatementMonth)
       /\ candidateTransactions' = candidateTransactions

(* C29: handleToggleIssued changes only issuedMonths and statementAmounts  *)
(* of the selected bank: statementDay and isNextMonth and every other      *)
(* bank's setting stay, a bank without a setting gets no statement day,    *)
(* and the bank's cycle range and candidates are the same before and       *)
(* after.                                                                  *)
C29_ToggleIssuedFrame == [][C29_Frame]_vars

\* The selected bank has a cycle range and no saved amount for the month.
C30_Case ==
    /\ selectedBank # NONE
    /\ getCycleRange(selectedBank, selectedStatementMonth) # Null
    /\ SavedAmount(cardSettings, selectedBank, selectedStatementMonth) = None

C30_Moves ==
    \A id \in TxIds :
       (C30_Case /\ id \in IdsOf(candidateTransactions) /\ toggleReconcile(id))
          => /\ unreconciledSumInCycle' = unreconciledSumInCycle - TxOf(id).amount
             /\ reconciledTotalInCycle' = reconciledTotalInCycle + TxOf(id).amount

(* C30: for a bank with a cycle range and no saved statement amount,       *)
(* toggleReconcile on a candidate of amount a lowers the candidates' total *)
(* by a and raises reconciledTotalInCycle by a, for every candidate,       *)
(* carried-forward ones included.                                          *)
C30_ToggleMovesAmount == [][C30_Moves]_vars

C30_MovesInCycle ==
    \A id \in TxIds :
       (C30_Case /\ id \in IdsOf(candidateTransactions) /\ toggleReconcile(id))
          => LET range == getCycleRange(selectedBank, selectedStatementMonth)
                 a == TxOf(id).amount
             IN  /\ unreconciledSumInCycle' = unreconciledSumInCycle - a
                 /\ reconciledTotalInCycle' =
                      IF TxOf(id).date >= range.start
                      THEN reconciledTotalInCycle + a
                      ELSE reconciledTotalInCycle

(* C30 as amended: the candidates' total falls by a for every candidate;   *)
(* reconciledTotalInCycle rises by a for a candidate dated within the      *)
(* cycle and stays as it is for one carried forward from before            *)
(* cycle.start.                                                            *)
C30_ToggleMovesAmountInCycle == [][C30_MovesInCycle]_vars

\* Both kinds of candidate have been reconciled by toggleReconcile: one
\* dated within the cycle, counted in reconciledTotalInCycle, and one dated
\* before its start.
C30_Witness ==
    LET range == getCycleRange(selectedBank, selectedStatementMonth)
    IN  /\ C30_Case
        /\ \E t \in Held : /\ t.cardBank = selectedBank
                           /\ t.isReconciled /\ t.reconciledDate # None
                           /\ t.date >= range.start /\ t.date <= range.end
                           /\ reconciledTotalInCycle = t.amount
        /\ \E t \in Held : /\ t.cardBank = selectedBank
                           /\ t.isReconciled /\ t.reconciledDate # None
                           /\ t.date < range.start

(* C13: for every bank, card setting and selected month the Dashboard      *)
(* computes the same cycle as the Reconciliation screen's getCycleRange,   *)
(* and so selects the same unreconciled transactions.                      *)
C13_DashboardSameCycle ==
    \A b \in Banks :
       /\ DashboardGetCycleRange(b, selectedStatementMonth)
             = getCycleRange(b, selectedStatementMonth)
       /\ IdsOf(DashboardUnbilled(b, selectedStatementMonth))
             = IdsOf(CandidatesOf(b, selectedStatementMonth))

-----------------------------------------------------------------------------
(* Cloud synchronisation: the debounce timer of the auto-save effect, the  *)
(* save requests in flight, and the loads started on mount and from the    *)
(* Settings screen.  saving holds one record per request that has been     *)
(* sent and not answered; loading counts the loads not yet answered.       *)

MaxInFlight == 2
MaxLoads == 1

\* The requests in flight without the i-th, which has been answered.
RemoveAt(s, i) == SubSeq(s, 1, i - 1) \o SubSeq(s, i + 1, Len(s))

\* The timer's callback: it sends the state captured by its render.
TimerFire ==
    /\ timers # << >>
    /\ Len(saving) < MaxInFlight
    /\ saving' = Append(saving, [kind |-> "auto", data |-> Head(timers)])
    /\ timers' = Tail(timers)
    /\ UNCHANGED <<isRemoteUpdate, syncStatus, loading>>
    /\ UNCHANGED <<transactions, appFrame>>

\* saveToGoogleSheet resolves: both callers then set 'saved'.
SaveDone(i) ==
    /\ i \in 1..Len(saving)
    /\ saving' = RemoveAt(saving, i)
    /\ syncStatus' = "saved"
    /\ UNCHANGED <<isRemoteUpdate, timers, loading>>
    /\ UNCHANGED <<transactions, appFrame>>

\* saveToGoogleSheet throws: the timer's callback catches and sets 'error',
\* handleSettingsSync lets the exception leave the App.
SaveFail(i) ==
    /\ i \in 1..Len(saving)
    /\ saving' = RemoveAt(saving, i)
    /\ syncStatus' = IF saving[i].kind = "auto" THEN "error" ELSE syncStatus
    /\ UNCHANGED <<isRemoteUpdate, timers, loading>>
    /\ UNCHANGED <<transactions, appFrame>>

\* handleSettingsSync up to its await; changed says whether the url differs
\* from googleScriptUrl, which makes the auto-save effect run.
handleSettingsSync(changed, isUpload) ==
    /\ UNCHANGED <<transactions, appFrame>>
    /\ IF isUpload
       THEN /\ Len(saving) < MaxInFlight
            /\ saving' = Append(saving, [kind |-> "manual", data |-> Payload])
            /\ loading' = loading
            /\ IF changed THEN AutoSave(isRemoteUpdate, syncStatus)
               ELSE UNCHANGED <<isRemoteUpdate, timers, syncStatus>>
       ELSE /\ loading < MaxLoads
            /\ loading' = loading + 1
            /\ saving' = saving
            /\ IF changed THEN AutoSave(isRemoteUpdate, "syncing")
               ELSE /\ syncStatus' = "syncing"
                    /\ UNCHANGED <<isRemoteUpdate, timers>>

\* The field of the loaded data if it has one, else the local value.
Loaded(data, field, local) == IF field \in DOMAIN data THEN data[field] ELSE local

\* handleAutoLoad after its await, with data: the flag is set and every
\* collection the data holds replaces the local one.  The effect runs, with
\* the flag set, if a collection was replaced; the status alone is not among
\* its dependencies.
LoadApply(data) ==
    /\ loading > 0
    /\ loading' = loading - 1
    /\ transactions' = Loaded(data, "transactions", transactions)
    /\ cardSettings' = Loaded(data, "cardSettings", cardSettings)
    /\ budgets' = Loaded(data, "budgets", budgets)
    /\ IF DOMAIN data \cap {"transactions", "cardSettings", "budgets"} # {}
       THEN AutoSave(TRUE, "saved")
       ELSE /\ isRemoteUpdate' = TRUE
            /\ syncStatus' = "saved"
            /\ timers' = timers
    /\ UNCHANGED saving
    /\ UNCHANGED <<selectedMonth, zone, now, selectedBank, selectedStatementMonth,
                   statementTotal>>

\* handleAutoLoad after its await, the sheet being empty.
LoadNull ==
    /\ loading > 0
    /\ loading' = loading - 1
    /\ syncStatus' = "idle"
    /\ UNCHANGED <<isRemoteUpdate, timers, saving>>
    /\ UNCHANGED <<transactions, appFrame>>

\* handleAutoLoad's catch.
LoadFail ==
    /\ loading > 0
    /\ loading' = loading - 1
    /\ syncStatus' = "error"
    /\ UNCHANGED <<isRemoteUpdate, timers, saving>>
    /\ UNCHANGED <<transactions, appFrame>>

\* The App after its first render: the mount effect has started a load and
\* the auto-save effect has returned at isFirstMount.
Mounted ==
    /\ isRemoteUpdate = FALSE
    /\ syncStatus = "syncing"
    /\ timers = << >>
    /\ saving = << >>
    /\ loading = 1

-----------------------------------------------------------------------------
(* SpecSync: local edits interleaved with the timer, the answers to saves  *)
(* and loads, and the Settings screen's upload and download.  hist records *)
(* the last step, whether a local edit has not been sent yet, the ids      *)
(* added while a load was in flight, the requests in flight before the     *)
(* step and whether a timer was armed before it; snapshot is the local     *)
(* state before the step.                                                  *)

SyncDate == MkDate(2024, 3, 5)

SyncForm ==
    [editingId |-> None, date |-> SyncDate, amount |-> 100,
     paymentMethod |-> CREDIT_CARD, cardBank |-> "X",
     isRecurring |-> FALSE, isInstallment |-> FALSE, installments |-> Some(3)]

SyncTx(id) ==
    [id |-> id, date |-> SyncDate, amount |-> 100, paymentMethod |-> CREDIT_CARD,
     cardBank |-> "X", isReconciled |-> FALSE, reconciledDate |-> None]

RemoteId == 9

\* What the sheet may answer: a document without transactions or one with
\* a transaction written by another device.
RemoteDocs ==
    {[transactions |-> << >>, cardSettings |-> EmptyMap, budgets |-> << >>],
     [transactions |-> <<SyncTx(RemoteId)>>, cardSettings |-> EmptyMap,
      budgets |-> << >>]}

NoStep ==
    [op |-> "", unsaved |-> FALSE, during |-> {}, saving |-> << >>,
     armed |-> FALSE]

Step(op, unsaved, added) ==
    /\ hist' = [op |-> op, unsaved |-> unsaved,
                during |-> IF loading > 0 THEN hist.during \cup added ELSE {},
                saving |-> saving, armed |-> timers # << >>]
    /\ snapshot' = Payload

SyncAdd ==
    /\ handleSubmit(SyncForm)
    /\ Step("edit", TRUE, {FreshId})

SyncTimerFire == TimerFire /\ Step("fire", FALSE, {})

SyncSaveDone == \E i \in 1..Len(saving) : SaveDone(i) /\ Step("saveDone", hist.unsaved, {})

SyncSaveFail == \E i \in 1..Len(saving) : SaveFail(i) /\ Step("saveFail", hist.unsaved, {})

SyncUpload ==
    \E changed \in BOOLEAN :
       handleSettingsSync(changed, TRUE) /\ Step("upload", hist.unsaved, {})

SyncDownload ==
    \E changed \in BOOLEAN :
       handleSettingsSync(changed, FALSE) /\ Step("download", hist.unsaved, {})

SyncLoadApply == \E data \in RemoteDocs : LoadApply(data) /\ Step("loadApply", hist.unsaved, {})

SyncLoadNull == LoadNull /\ Step("loadNull", hist.unsaved, {})

SyncLoadFail == LoadFail /\ Step("loadFail", hist.unsaved, {})

InitSync ==
    /\ zone = "UTC+8"
    /\ NoBudgets
    /\ now = 1
    /\ transactions = <<SyncTx(1)>>
    /\ cardSettings = EmptyMap
    /\ selectedBank = NONE
    /\ selectedStatementMonth = MonthKey(2024, 3)
    /\ statementTotal = EmptyText
    /\ Mounted
    /\ hist = NoStep
    /\ snapshot = Payload

NextSync ==
    \/ SyncAdd
    \/ SyncTimerFire
    \/ SyncSaveDone
    \/ SyncSaveFail
    \/ SyncUpload
    \/ SyncDownload
    \/ SyncLoadApply
    \/ SyncLoadNull
    \/ SyncLoadFail

SpecSync == InitSync /\ [][NextSync]_vars

AutoSaves == {i \in 1..Len(saving) : saving[i].kind = "auto"}

(* C14: at most one save request issued by the auto-save effect is in      *)
(* flight at any time, whatever the interleaving of local edits, timer     *)
(* expiry and save completion.                                             *)
C14_OneSaveInFlight == Cardinality(AutoSaves) <= 1

(* C15: applying a successful remote load issues no save of the loaded     *)
(* data: right after handleAutoLoad has applied its data no timer is       *)
(* armed, the flag is down again and the requests in flight are those      *)
(* that were in flight before.                                             *)
C15_LoadIsNotEchoed ==
    hist.op = "loadApply" =>
       /\ timers = << >>
       /\ isRemoteUpdate = FALSE
       /\ saving = hist.saving

\* A load is applied that changes the local state while a timer was armed.
C15_Witness ==
    /\ hist.op = "loadApply"
    /\ hist.armed
    /\ Payload # snapshot
    /\ saving # << >>

(* C16: a load that completes after local edits made while it was in       *)
(* flight does not discard them: the transactions added meanwhile are      *)
(* still in the list after the load is applied.                            *)
C16_LoadKeepsLocalEdits ==
    hist.op = "loadApply" => hist.during \subseteq TxIds

(* C17: rapid local edits cause exactly one save, issued after the last of *)
(* them and carrying the state with all of them: as long as a local edit   *)
(* has not been sent, exactly one timer is armed and it holds the current  *)
(* state.                                                                  *)
C17_DebouncedSaveCarriesEdits ==
    hist.unsaved => timers = <<Payload>>

(* C18: every failed save, automatic or manual, and every failed load sets *)
(* syncStatus to 'error' and leaves the local state as it was.             *)
C18_FailureSetsError ==
    hist.op \in {"saveFail", "loadFail"} =>
       /\ syncStatus = "error"
       /\ Payload = snapshot

-----------------------------------------------------------------------------
(* SpecCloud: the App together with the sheet.  snapshot is the document   *)
(* the sheet holds: a save that is answered has stored its data, a load    *)
(* that is answered returns the document.  Every request succeeds.  hist   *)
(* records the last step; whether a load has completed; whether an edit    *)
(* made after a completed load, with no load requested since, has not been *)
(* sent (pending); whether any edit has not been sent (unsent); whether a  *)
(* save has been answered (stored); whether a load was applied, after the  *)
(* last edit, while a save was in flight (raced); the local state at the   *)
(* request of a restore that has not been answered (restore); and whether  *)
(* a save with that state was sent meanwhile (uploaded).                   *)

\* A document without any of the collections.
NoFields == << >>

CloudDocs ==
    {NoFields,
     [transactions |-> <<SyncTx(RemoteId)>>, cardSettings |-> EmptyMap,
      budgets |-> << >>]}

NoCloudStep ==
    [op |-> "", loaded |-> FALSE, pending |-> FALSE, unsent |-> FALSE,
     stored |-> FALSE, raced |-> FALSE, restore |-> None, uploaded |-> FALSE]

CloudAdd ==
    /\ handleSubmit(SyncForm)
    /\ hist' = [hist EXCEPT !.op = "edit", !.unsent = TRUE, !.raced = FALSE,
                            !.pending = hist.loaded /\ loading = 0]
    /\ UNCHANGED snapshot

CloudTimerFire ==
    /\ TimerFire
    /\ hist' = [hist EXCEPT !.op = "fire", !.unsent = FALSE, !.pending = FALSE,
                            !.uploaded = \/ hist.uploaded
                                         \/ hist.restore = Some(Head(timers))]
    /\ UNCHANGED snapshot

CloudSaveDone ==
    \E i \in 1..Len(saving) :
       /\ SaveDone(i)
       /\ snapshot' = saving[i].data
       /\ hist' = [hist EXCEPT !.op = "saveDone", !.stored = TRUE]

CloudRestore ==
    \E changed \in BOOLEAN :
       /\ handleSettingsSync(changed, FALSE)
       /\ hist' = [hist EXCEPT !.op = "restore", !.pending = FALSE,
                               !.restore = Some(Payload)]
       /\ UNCHANGED snapshot

CloudLoadApply ==
    /\ LoadApply(snapshot)
    /\ hist' = [hist EXCEPT !.op = "loadApply", !.loaded = TRUE, !.restore = None,
                            !.raced = hist.raced \/ saving # << >>]
    /\ UNCHANGED snapshot

InitCloud ==
    /\ zone = "UTC+8"
    /\ NoBudgets
    /\ now = 1
    /\ transactions = <<SyncTx(1)>>
    /\ cardSettings = EmptyMap
    /\ selectedBank = NONE
    /\ selectedStatementMonth = MonthKey(2024, 3)
    /\ statementTotal = EmptyText
    /\ Mounted
    /\ hist = NoCloudStep
    /\ snapshot \in CloudDocs

NextCloud ==
    \/ CloudAdd
    \/ CloudTimerFire
    \/ CloudSaveDone
    \/ CloudRestore
    \/ CloudLoadApply

SpecCloud == InitCloud /\ [][NextCloud]_vars

(* C26: the flag suppresses only the save of the load that set it: an edit *)
(* made after a completed load, whatever its payload, is followed by a     *)
(* save carrying it.  As long as such an edit has not been sent and no     *)
(* load has been requested since, a timer holding the current state is     *)
(* armed.                                                                  *)
C26_EditAfterLoadIsSaved == hist.pending => timers = <<Payload>>

(* C27: once every edit has been sent and every request answered, with no  *)
(* timer armed and no load applied while a save was in flight, the         *)
(* document the sheet holds is the local state, in whatever order the      *)
(* saves were answered.                                                    *)
C27_SheetEqualsLocal ==
    (/\ timers = << >> /\ saving = << >> /\ loading = 0
     /\ hist.stored /\ ~hist.unsent /\ ~hist.raced)
       => snapshot = Payload

(* C28: between the request of a restore and the application of the loaded *)
(* data no save carrying the local state of before the restore is sent.    *)
C28_RestoreUploadsNothing == ~hist.uploaded

=============================================================================
